---- MODULE Spec2Model ----
(***************************************************************************)
(* Live broadcast session coordinator of server.js: the in-memory          *)
(* `sessions` map, the Socket.IO "join-broadcast" handler, the rooms of    *)
(* the Socket.IO adapter that the handler joins, leaves and emits to, the  *)
(* loss of a connection, and the GET /api/live-sessions query.             *)
(*                                                                         *)
(* Node runs every handler to completion on one thread, and the handler    *)
(* is synchronous, so one handler invocation is one atomic action.         *)
(***************************************************************************)
EXTENDS Integers, Sequences, FiniteSets, TLC

VARIABLES
    sessions,   \* the Map roomId -> session (a function on the keys present)
    rooms,      \* Socket.IO adapter: room name -> set of attached socket ids
    connected,  \* socket ids whose connection is open
    closed,     \* socket ids whose connection was lost (ids are never reused)
    now,        \* the wall clock read by `new Date()`
    emitted,    \* the outbound events of the latest step, in order of emission
    response,   \* the HTTP response body of the latest step, if it sent one
    everStudent \* history: room id -> the identities admitted as student so far

vars == <<sessions, rooms, connected, closed, now, emitted, response, everStudent>>

----------------------------------------------------------------------------
(* Bounds of the model *)

\* the clock takes the values 1..MaxTime
MaxTime == 2

\* ids of the connections, and the room ids and user ids the clients send
Sockets == {"s1", "s2"}
RoomIds == {"r1"}
UserIds == {"u1", "u2"}

\* A room id is any string the client sends, and Socket.IO keeps the rooms
\* that are joined by room id and the room of each socket, named by the
\* socket's id, in one name space. SocketRoomIds are the room ids, among
\* those sent, that are the id of a socket: they are sent in SpecRooms, with
\* the identities of RoomsUserIds.
SocketRoomIds == {"s1"}
SharedRoomIds == RoomIds \cup SocketRoomIds
RoomsUserIds == {"u1"}
Empty == ""
UserTypes == {"instructor", "student", "viewer"}

RoomNames == SharedRoomIds \cup Sockets
Times == 1..MaxTime

----------------------------------------------------------------------------
(* JavaScript values *)

Null == [null |-> TRUE]
Date(t) == [ms |-> t]

\* a || b
OrElse(a, b) == IF a # Null THEN a ELSE b

----------------------------------------------------------------------------
(* Socket.IO: rooms and emission *)

\* socket.join(roomId)
SocketJoin(rs, socketId, roomId) ==
    [rs EXCEPT ![roomId] = @ \cup {socketId}]

\* socket.leave(roomId)
SocketLeave(rs, socketId, roomId) ==
    [rs EXCEPT ![roomId] = @ \ {socketId}]

\* variant of socket.emit: io.emit, to every open connection
IoEmitToAll(socketId, event, payload) ==
    [event |-> event, to |-> connected, payload |-> payload]

\* socket.emit(event, payload): to this socket alone
SocketEmit(socketId, event, payload) ==
    [event |-> event, to |-> {socketId}, payload |-> payload]

\* io.to(name).emit(event, payload): to every socket attached to room `name`
IoToEmit(rs, name, event, payload) ==
    [event |-> event, to |-> rs[name], payload |-> payload]

----------------------------------------------------------------------------
(* The join-broadcast handler *)

InvalidParamsMessage == "Invalid join parameters."
ConflictMessage == "Another instructor is already active in this session."

\* variant of the validation: the identity not tested
InvalidParamsUserUntested(roomId, userId, userType) ==
    \/ roomId = Empty
    \/ userType \notin {"instructor", "student"}

\* !roomId || !userId || !["instructor", "student"].includes(userType)
InvalidParams(roomId, userId, userType) ==
    \/ roomId = Empty
    \/ userId = Empty
    \/ userType \notin {"instructor", "student"}

\* the session literal of the lazy creation
NewSession ==
    [instructor |-> Null,
     students   |-> {},
     messages   |-> << >>,
     isLive     |-> FALSE,
     startTime  |-> Null,
     createdAt  |-> Date(now)]

\* sessions.get(roomId), followed by the creation when there is none
HasSession(roomId) == roomId \in DOMAIN sessions
GetOrCreate(roomId) ==
    IF HasSession(roomId) THEN sessions[roomId] ELSE NewSession

\* session.instructor?.active
InstructorActive(session) ==
    session.instructor # Null /\ session.instructor.active

\* variants of the conflict test: the test left out, and the comparison of
\* the socket ids turned around
InstructorConflictOmitted(session, socketId) == FALSE
InstructorConflictSameSocket(session, socketId) ==
    /\ session.instructor # Null
    /\ session.instructor.active
    /\ session.instructor.socketId = socketId

\* variant of the conflict test: the socket ids not compared
InstructorConflictAnyActive(session, socketId) ==
    /\ session.instructor # Null
    /\ session.instructor.active

\* the conflict test of the instructor branch
InstructorConflict(session, socketId) ==
    /\ session.instructor # Null
    /\ session.instructor.active
    /\ session.instructor.socketId # socketId

\* variants of the instructor admission: isLive left as it was, and
\* startTime assigned on every admission
AdmitInstructorNotLive(session, userId, socketId) ==
    [session EXCEPT
        !.instructor = [id |-> userId, socketId |-> socketId, active |-> TRUE],
        !.startTime  = OrElse(session.startTime, Date(now))]
AdmitInstructorRestart(session, userId, socketId) ==
    [session EXCEPT
        !.instructor = [id |-> userId, socketId |-> socketId, active |-> TRUE],
        !.isLive     = TRUE,
        !.startTime  = Date(now)]

\* the three assignments of the instructor branch
AdmitInstructor(session, userId, socketId) ==
    [session EXCEPT
        !.instructor = [id |-> userId, socketId |-> socketId, active |-> TRUE],
        !.isLive     = TRUE,
        !.startTime  = OrElse(session.startTime, Date(now))]

\* variant of Map.prototype.set: a push that keeps the entry of the same key
MapPush(map, key, value) == map \cup {<<key, value>>}

\* Map.prototype.set on the students map: an entry is <<key, value>>
MapSet(map, key, value) ==
    {e \in map : e[1] # key} \cup {<<key, value>>}
MapHas(map, key) == \E e \in map : e[1] = key
MapGet(map, key) == (CHOOSE e \in map : e[1] = key)[2]
MapKeys(map) == {e[1] : e \in map}
MapSize(map) == Cardinality(map)

\* variant of the student admission: the session marked live as well
AdmitStudentGoesLive(session, userId, socketId) ==
    [session EXCEPT
        !.students = MapSet(@, userId,
            [socketId |-> socketId, active |-> TRUE, joinedAt |-> Date(now)]),
        !.isLive = TRUE]

\* session.students.set(userId, {socketId, active: true, joinedAt: new Date()})
AdmitStudent(session, userId, socketId) ==
    [session EXCEPT
        !.students = MapSet(@, userId,
            [socketId |-> socketId, active |-> TRUE, joinedAt |-> Date(now)])]

\* variant of the count: the instructor left out
StudentsOnlyCount(session) == MapSize(session.students)

\* session.students.size + (session.instructor?.active ? 1 : 0)
ParticipantCount(session) ==
    MapSize(session.students) + (IF InstructorActive(session) THEN 1 ELSE 0)

\* variant of broadcast-started: the time of the emission as startTime
BroadcastStartedNow(rs, roomId, userId, session) ==
    IoToEmit(rs, roomId, "broadcast-started",
        [instructorId |-> userId, startTime |-> Date(now)])

BroadcastStarted(rs, roomId, userId, session) ==
    IoToEmit(rs, roomId, "broadcast-started",
        [instructorId |-> userId, startTime |-> session.startTime])

StudentJoined(rs, roomId, userId, session) ==
    IoToEmit(rs, session.instructor.socketId, "student-joined",
        [roomId |-> roomId, userId |-> userId,
         totalStudents |-> MapSize(session.students)])

SessionInfo(socketId, session) ==
    SocketEmit(socketId, "session-info",
        [isLive           |-> session.isLive,
         startTime        |-> session.startTime,
         messages         |-> session.messages,
         totalStudents    |-> MapSize(session.students),
         instructorActive |-> InstructorActive(session)])

ParticipantsUpdated(rs, roomId, session) ==
    IoToEmit(rs, roomId, "participants-updated",
        [count |-> ParticipantCount(session)])

\* socket.on("join-broadcast", (roomId, userId, userType) => ...)
JoinBroadcast(socketId, roomId, userId, userType) ==
    /\ socketId \in connected
    /\ response' = Null
    /\ UNCHANGED <<connected, closed, now>>
    /\ IF InvalidParams(roomId, userId, userType)
       THEN /\ emitted' = <<SocketEmit(socketId, "error", InvalidParamsMessage)>>
            /\ UNCHANGED <<sessions, rooms, everStudent>>
       ELSE LET joined  == SocketJoin(rooms, socketId, roomId)
                session == GetOrCreate(roomId)
            IN  IF userType = "instructor"
                THEN IF InstructorConflict(session, socketId)
                     THEN /\ emitted' = <<SocketEmit(socketId, "error", ConflictMessage)>>
                          /\ rooms' = SocketLeave(joined, socketId, roomId)
                          /\ sessions' = (roomId :> session) @@ sessions
                          /\ UNCHANGED everStudent
                     ELSE LET admitted == AdmitInstructor(session, userId, socketId)
                          IN  /\ sessions' = (roomId :> admitted) @@ sessions
                              /\ rooms' = joined
                              /\ UNCHANGED everStudent
                              /\ emitted' =
                                   <<BroadcastStarted(joined, roomId, userId, admitted),
                                     ParticipantsUpdated(joined, roomId, admitted)>>
                ELSE LET admitted == AdmitStudent(session, userId, socketId)
                     IN  /\ sessions' = (roomId :> admitted) @@ sessions
                         /\ rooms' = joined
                         /\ everStudent' =
                              [everStudent EXCEPT ![roomId] = @ \cup {userId}]
                         /\ emitted' =
                              (IF InstructorActive(admitted)
                               THEN <<StudentJoined(joined, roomId, userId, admitted)>>
                               ELSE << >>)
                              \o <<SessionInfo(socketId, admitted),
                                   ParticipantsUpdated(joined, roomId, admitted)>>

----------------------------------------------------------------------------
(* Connections: io.on("connection", ...) registers the join-broadcast       *)
(* handler and nothing else; there is no "disconnect" handler.              *)

\* a new connection: Socket.IO attaches the socket to the room named by its id
Connect(socketId) ==
    /\ socketId \notin connected
    /\ socketId \notin closed
    /\ connected' = connected \cup {socketId}
    /\ rooms' = SocketJoin(rooms, socketId, socketId)
    /\ emitted' = << >>
    /\ response' = Null
    /\ UNCHANGED <<sessions, closed, now, everStudent>>

\* variant of the connection loss: a disconnect handler that applies the
\* leave transition to the sessions whose instructor is on the connection
DisconnectLeaves(socketId) ==
    /\ socketId \in connected
    /\ connected' = connected \ {socketId}
    /\ closed' = closed \cup {socketId}
    /\ rooms' = [name \in RoomNames |-> rooms[name] \ {socketId}]
    /\ sessions' =
         [r \in DOMAIN sessions |->
            IF /\ sessions[r].instructor # Null
               /\ sessions[r].instructor.socketId = socketId
            THEN [sessions[r] EXCEPT !.instructor.active = FALSE,
                                     !.isLive = FALSE]
            ELSE sessions[r]]
    /\ emitted' = << >>
    /\ response' = Null
    /\ UNCHANGED <<now, everStudent>>

\* connection loss: Socket.IO detaches the socket from every room; the
\* program registers no handler for it, so `sessions` is not touched
Disconnect(socketId) ==
    /\ socketId \in connected
    /\ connected' = connected \ {socketId}
    /\ closed' = closed \cup {socketId}
    /\ rooms' = [name \in RoomNames |-> rooms[name] \ {socketId}]
    /\ emitted' = << >>
    /\ response' = Null
    /\ UNCHANGED <<sessions, now, everStudent>>

\* time passes between two events
Tick ==
    /\ now < MaxTime
    /\ now' = now + 1
    /\ UNCHANGED <<sessions, rooms, connected, closed, everStudent>>
    /\ emitted' = << >>
    /\ response' = Null

----------------------------------------------------------------------------
(* GET /api/live-sessions *)

\* variant of the pushed entry: the students counted alone
ActiveSessionStudentsOnly(roomId, session) ==
    [id           |-> roomId,
     startTime    |-> session.startTime,
     participants |-> MapSize(session.students),
     instructorId |-> session.instructor.id]

\* the object pushed for a live session
ActiveSession(roomId, session) ==
    [id           |-> roomId,
     startTime    |-> session.startTime,
     participants |-> MapSize(session.students)
                        + (IF InstructorActive(session) THEN 1 ELSE 0),
     instructorId |-> session.instructor.id]

\* sessions.forEach over the given keys, pushing the live sessions. The Map
\* is walked in insertion order, which the model does not keep: the keys
\* are taken in a fixed order.
RECURSIVE ActiveSessions(_)
ActiveSessions(keys) ==
    IF keys = {} THEN << >>
    ELSE LET roomId  == CHOOSE k \in keys : TRUE
             session == sessions[roomId]
             rest    == ActiveSessions(keys \ {roomId})
         IN  IF session.isLive /\ InstructorActive(session)
             THEN <<ActiveSession(roomId, session)>> \o rest
             ELSE rest

\* app.get("/api/live-sessions", ...)
GetLiveSessions ==
    /\ response' = [success |-> TRUE, sessions |-> ActiveSessions(DOMAIN sessions)]
    /\ emitted' = << >>
    /\ UNCHANGED <<sessions, rooms, connected, closed, now, everStudent>>

----------------------------------------------------------------------------

Init ==
    /\ sessions = << >>
    /\ rooms = [name \in RoomNames |-> {}]
    /\ connected = {}
    /\ closed = {}
    /\ now = 1
    /\ emitted = << >>
    /\ response = Null
    /\ everStudent = [r \in SharedRoomIds |-> {}]

\* a join-broadcast event from any open connection, with room ids and user
\* ids drawn from the given sets, the empty string included
JoinOn(roomIds, userIds) ==
    \E s \in Sockets, r \in roomIds \cup {Empty}, u \in userIds \cup {Empty},
       t \in UserTypes : JoinBroadcast(s, r, u, t)

Next ==
    \/ \E s \in Sockets : Connect(s)
    \/ \E s \in Sockets : Disconnect(s)
    \/ JoinOn(RoomIds, UserIds)
    \/ GetLiveSessions
    \/ Tick

Spec == Init /\ [][Next]_vars

\* the same program with joins to two rooms, one of them named by a socket id
NextRooms ==
    \/ \E s \in Sockets : Connect(s)
    \/ \E s \in Sockets : Disconnect(s)
    \/ JoinOn(SharedRoomIds, RoomsUserIds)
    \/ GetLiveSessions
    \/ Tick

SpecRooms == Init /\ [][NextRooms]_vars

----------------------------------------------------------------------------
(* Vocabulary of the properties, in terms of the raw state *)

JoinRooms == RoomIds \cup {Empty}
JoinUsers == UserIds \cup {Empty}

\* the room has a session whose instructor record is non-null and active
LiveInstructor(r) ==
    /\ r \in DOMAIN sessions
    /\ sessions[r].instructor # Null
    /\ sessions[r].instructor.active

\* an instructor join from connection s meets an active instructor on another one
MeetsConflict(s, r) ==
    LiveInstructor(r) /\ sessions[r].instructor.socketId # s

\* the request is malformed: empty room id, empty identity or unknown role
Malformed(r, u, t) ==
    r = "" \/ u = "" \/ t \notin {"instructor", "student"}

\* the join is rejected / admitted, judged on the state it arrives in
Rejected(s, r, u, t) ==
    Malformed(r, u, t) \/ (t = "instructor" /\ MeetsConflict(s, r))
Admitted(s, r, u, t) == ~Rejected(s, r, u, t)

\* the notifications of the latest step that carry the given event
Events(e) == {i \in 1..Len(emitted) : emitted[i].event = e}
EventsAfter(e) == {i \in 1..Len(emitted') : emitted'[i].event = e}

----------------------------------------------------------------------------
\* C1: in every room, an instructor join from a connection other than the
\* one of the recorded active instructor is never admitted: after it the
\* instructor record is still the first one, active, on its own connection,
\* so no two connections are instructor of a room at once.
C1_OneActiveInstructor ==
    [][\A s \in Sockets, r \in RoomIds, u \in UserIds :
         (MeetsConflict(s, r) /\ JoinBroadcast(s, r, u, "instructor"))
           => /\ sessions'[r].instructor # Null
              /\ sessions'[r].instructor.active
              /\ sessions'[r].instructor.socketId = sessions[r].instructor.socketId
              /\ sessions'[r].instructor.socketId # s]_vars

\* an instructor is active on one open connection and another open
\* connection has just been refused as instructor
C1_Witness ==
    \E r \in RoomIds, s \in connected :
        /\ LiveInstructor(r)
        /\ sessions[r].instructor.socketId \in connected \ {s}
        /\ emitted = <<[event |-> "error", to |-> {s},
                        payload |-> "Another instructor is already active in this session."]>>

\* C2: an instructor join that meets an active instructor on a different
\* connection leaves the whole sessions map as it was: instructor record,
\* isLive, startTime, students and messages of the session are unchanged.
C2_ConflictKeepsSession ==
    [][\A s \in Sockets, r \in RoomIds, u \in UserIds :
         (MeetsConflict(s, r) /\ JoinBroadcast(s, r, u, "instructor"))
           => /\ DOMAIN sessions' = DOMAIN sessions
              /\ sessions'[r].instructor = sessions[r].instructor
              /\ sessions'[r].isLive = sessions[r].isLive
              /\ sessions'[r].startTime = sessions[r].startTime
              /\ sessions'[r].students = sessions[r].students
              /\ sessions'[r].messages = sessions[r].messages
              /\ sessions' = sessions]_vars

\* a refused instructor join on a session that already has students
C2_Witness ==
    \E r \in RoomIds :
        /\ LiveInstructor(r)
        /\ sessions[r].students # {}
        /\ Len(emitted) = 1
        /\ emitted[1].event = "error"
        /\ emitted[1].payload = "Another instructor is already active in this session."

\* C3: in every reachable state and for every session, isLive is true
\* exactly when the instructor record is non-null and active.
C3_LiveIffActiveInstructor ==
    \A r \in DOMAIN sessions :
        sessions[r].isLive <=>
            (sessions[r].instructor # Null /\ sessions[r].instructor.active)

\* a live session with an active instructor and a student
C3_Witness ==
    \E r \in DOMAIN sessions :
        /\ sessions[r].isLive
        /\ sessions[r].instructor # Null
        /\ sessions[r].instructor.active
        /\ sessions[r].students # {}

\* C4: startTime is null as long as no instructor was admitted, the first
\* instructor admission sets it to the time of that admission, and once it
\* is non-null no step changes it.
C4_StartTimeSetOnce ==
    /\ [](\A r \in DOMAIN sessions :
             sessions[r].startTime = Null <=> sessions[r].instructor = Null)
    /\ [][\A r \in DOMAIN sessions' :
             IF r \in DOMAIN sessions /\ sessions[r].startTime # Null
             THEN sessions'[r].startTime = sessions[r].startTime
             ELSE sessions'[r].startTime \in {Null, [ms |-> now]}]_vars

\* an instructor is admitted again at time 2 and the session keeps the
\* startTime of time 1 (the clock step clears `emitted`, so the
\* broadcast-started was emitted at time 2)
C4_Witness ==
    \E r \in DOMAIN sessions :
        /\ now = 2
        /\ sessions[r].startTime = [ms |-> 1]
        /\ Events("broadcast-started") # {}

\* C5: every admitted join, instructor or student, emits exactly one
\* participants-updated, addressed to every connection attached to the room
\* (the requester included), whose count is students.size plus one if the
\* instructor is active, on the session as the admission left it.
C5_ParticipantsUpdated ==
    [][\A s \in Sockets, r \in RoomIds, u \in UserIds, t \in {"instructor", "student"} :
         (Admitted(s, r, u, t) /\ JoinBroadcast(s, r, u, t))
           => /\ Cardinality(EventsAfter("participants-updated")) = 1
              /\ \A i \in EventsAfter("participants-updated") :
                    /\ i = Len(emitted')
                    /\ emitted'[i].to = rooms'[r]
                    /\ s \in emitted'[i].to
                    /\ emitted'[i].payload.count =
                         Cardinality(sessions'[r].students)
                         + (IF /\ sessions'[r].instructor # Null
                               /\ sessions'[r].instructor.active
                            THEN 1 ELSE 0)]_vars

\* a student admission into a live room: the count is 2 and both the
\* instructor and the student are addressed
C5_Witness ==
    \E i \in Events("participants-updated") :
        /\ Events("session-info") # {}
        /\ emitted[i].payload.count = 2
        /\ Cardinality(emitted[i].to) = 2

\* C6 (as amended): admitting a student whose identity is already in the
\* students map leaves students.size and every other identity's entry
\* unchanged and replaces that identity's entry by {the requesting
\* connection, active, joinedAt = the time of this admission}; and in every
\* state the keys of students are the identities admitted as student to the
\* room, one entry each.
C6_StudentReadmission ==
    /\ [](\A r \in DOMAIN sessions :
            /\ {e[1] : e \in sessions[r].students} = everStudent[r]
            /\ Cardinality(sessions[r].students) = Cardinality(everStudent[r]))
    /\ [][\A s \in Sockets, r \in RoomIds, u \in UserIds :
            (/\ r \in DOMAIN sessions
             /\ \E e \in sessions[r].students : e[1] = u
             /\ JoinBroadcast(s, r, u, "student"))
              => /\ Cardinality(sessions'[r].students) = Cardinality(sessions[r].students)
                 /\ \A e \in sessions[r].students : e[1] # u => e \in sessions'[r].students
                 /\ \A e \in sessions'[r].students : e[1] # u => e \in sessions[r].students
                 /\ <<u, [socketId |-> s, active |-> TRUE, joinedAt |-> [ms |-> now]]>>
                       \in sessions'[r].students]_vars

\* C6 as stated: the re-admission changes nothing of the identity's entry
\* but its connection reference.
C6_OnlyConnectionUpdated ==
    [][\A s \in Sockets, r \in RoomIds, u \in UserIds :
          (/\ r \in DOMAIN sessions
           /\ \E e \in sessions[r].students : e[1] = u
           /\ JoinBroadcast(s, r, u, "student"))
            => /\ Cardinality(sessions'[r].students) = Cardinality(sessions[r].students)
               /\ \A e \in sessions[r].students : e[1] # u => e \in sessions'[r].students
               /\ \A e \in sessions[r].students :
                     e[1] = u => <<u, [e[2] EXCEPT !.socketId = s]>> \in sessions'[r].students]_vars

\* the same identity admitted as student on s1 and then, at time 2, on s2:
\* s1 is attached to the room, which only an admission of its own does, no
\* instructor was ever recorded, and the single entry of the map, joined at
\* time 2, is on s2, which the session-info of the latest step went to
C6_Witness ==
    \E r \in DOMAIN sessions :
        /\ now = 2
        /\ sessions[r].instructor = Null
        /\ Cardinality(sessions[r].students) = 1
        /\ \E e \in sessions[r].students :
               e[2].socketId = "s2" /\ e[2].joinedAt = [ms |-> 2]
        /\ rooms[r] = {"s1", "s2"}
        /\ \E i \in Events("session-info") : emitted[i].to = {"s2"}

\* C7: a join request with an empty room id, an empty identity, or a role
\* other than instructor and student changes nothing of the sessions map: no
\* session is created and every existing session keeps its state.
C7_MalformedKeepsSessions ==
    [][\A s \in Sockets, r \in JoinRooms, u \in JoinUsers, t \in UserTypes :
          (Malformed(r, u, t) /\ JoinBroadcast(s, r, u, t))
            => /\ DOMAIN sessions' = DOMAIN sessions
               /\ sessions' = sessions]_vars

\* a malformed request was refused while no room has a session
C7_Witness ==
    /\ DOMAIN sessions = {}
    /\ Len(emitted) = 1
    /\ emitted[1].event = "error"
    /\ emitted[1].payload = "Invalid join parameters."

\* C8 (as amended): every rejected join emits exactly one notification, an
\* error to the requesting connection alone, with the message "Invalid join
\* parameters." for a malformed request and "Another instructor is already
\* active in this session." for an instructor conflict; nothing else is
\* emitted to anyone.
C8_RejectionNotifiesRequester ==
    [][\A s \in Sockets, r \in JoinRooms, u \in JoinUsers, t \in UserTypes :
          (Rejected(s, r, u, t) /\ JoinBroadcast(s, r, u, t))
            => emitted' =
                 <<[event |-> "error", to |-> {s},
                    payload |-> IF Malformed(r, u, t)
                                THEN "Invalid join parameters."
                                ELSE "Another instructor is already active in this session."]>>]_vars

\* C8 as stated: the message of the invalid-parameters rejection is
\* "Invalid parameters."
C8_InvalidParametersMessage ==
    [][\A s \in Sockets, r \in JoinRooms, u \in JoinUsers, t \in UserTypes :
          (Rejected(s, r, u, t) /\ JoinBroadcast(s, r, u, t))
            => emitted' =
                 <<[event |-> "error", to |-> {s},
                    payload |-> IF Malformed(r, u, t)
                                THEN "Invalid parameters."
                                ELSE "Another instructor is already active in this session."]>>]_vars

\* a malformed request was refused while two connections are open and the
\* room has a session with members attached
C8_Witness ==
    \E s \in connected :
        /\ connected = Sockets
        /\ \E r \in DOMAIN sessions : rooms[r] # {}
        /\ emitted = <<[event |-> "error", to |-> {s},
                        payload |-> "Invalid join parameters."]>>

\* C9: a rejected join, malformed or in conflict, leaves every room's set of
\* attached connections as it was.
C9_RejectionKeepsRooms ==
    [][\A s \in Sockets, r \in JoinRooms, u \in JoinUsers, t \in UserTypes :
          (Rejected(s, r, u, t) /\ JoinBroadcast(s, r, u, t))
            => \A q \in RoomNames : rooms'[q] = rooms[q]]_vars

\* C10: when the connection of a room's active instructor is lost, the
\* instructor's active flag and isLive become false, startTime keeps its
\* value, and the room receives a participants-updated that counts the
\* students alone.
C10_InstructorLeaves ==
    [][\A s \in Sockets, r \in RoomIds :
          (/\ LiveInstructor(r)
           /\ sessions[r].instructor.socketId = s
           /\ Disconnect(s))
            => /\ ~sessions'[r].instructor.active
               /\ ~sessions'[r].isLive
               /\ sessions'[r].startTime = sessions[r].startTime
               /\ \E i \in EventsAfter("participants-updated") :
                     /\ emitted'[i].to = rooms'[r]
                     /\ emitted'[i].payload.count =
                          Cardinality(sessions'[r].students)]_vars

\* C11: a student join with a room id, an identity and the role student is
\* always admitted (the identity is recorded on the requesting connection,
\* which is attached to the room, and no error is emitted), and the
\* session's instructor record, isLive and startTime are what they were
\* before it: null, false and null when the join creates the session.
C11_StudentAlwaysAdmitted ==
    [][\A s \in Sockets, r \in RoomIds, u \in UserIds :
          JoinBroadcast(s, r, u, "student")
            => /\ r \in DOMAIN sessions'
               /\ \E e \in sessions'[r].students : e[1] = u /\ e[2].socketId = s
               /\ s \in rooms'[r]
               /\ EventsAfter("error") = {}
               /\ IF r \in DOMAIN sessions
                  THEN /\ sessions'[r].instructor = sessions[r].instructor
                       /\ sessions'[r].isLive = sessions[r].isLive
                       /\ sessions'[r].startTime = sessions[r].startTime
                  ELSE /\ sessions'[r].instructor = Null
                       /\ sessions'[r].isLive = FALSE
                       /\ sessions'[r].startTime = Null]_vars

\* a student was admitted at time 2 to a session that is live since time 1
C11_Witness ==
    \E i \in Events("session-info") :
        /\ now = 2
        /\ emitted[i].payload.isLive
        /\ emitted[i].payload.startTime = [ms |-> 1]

\* C12: on every student admission the joining connection alone receives one
\* session-info with the session's isLive, startTime, messages, number of
\* students and instructor activity as the admission left them, and one
\* student-joined{roomId, identity, totalStudents} is emitted exactly when
\* the session has an active instructor, delivered to no connection but the
\* recorded instructor's (to that one whenever it is open).
C12_StudentNotifications ==
    [][\A s \in Sockets, r \in SharedRoomIds, u \in UserIds :
          JoinBroadcast(s, r, u, "student")
            => LET after  == sessions'[r]
                   active == after.instructor # Null /\ after.instructor.active
               IN  /\ Cardinality(EventsAfter("session-info")) = 1
                   /\ \A i \in EventsAfter("session-info") :
                         /\ emitted'[i].to = {s}
                         /\ emitted'[i].payload =
                              [isLive           |-> after.isLive,
                               startTime        |-> after.startTime,
                               messages         |-> after.messages,
                               totalStudents    |-> Cardinality(after.students),
                               instructorActive |-> active]
                   /\ Cardinality(EventsAfter("student-joined")) = (IF active THEN 1 ELSE 0)
                   /\ \A i \in EventsAfter("student-joined") :
                         /\ emitted'[i].to = {after.instructor.socketId} \cap connected
                         /\ emitted'[i].payload =
                              [roomId |-> r, userId |-> u,
                               totalStudents |-> Cardinality(after.students)]]_vars

\* C13: every instructor admission, the first of the room or one more on
\* the same connection, emits one broadcast-started to every connection
\* attached to the room, the admitted one included, with the admitted
\* identity and the session's startTime (the value already set, on a
\* re-admission), and emits it before its participants-updated.
C13_BroadcastStarted ==
    [][\A s \in Sockets, r \in RoomIds, u \in UserIds :
          (Admitted(s, r, u, "instructor") /\ JoinBroadcast(s, r, u, "instructor"))
            => /\ Cardinality(EventsAfter("broadcast-started")) = 1
               /\ \A i \in EventsAfter("broadcast-started") :
                     /\ emitted'[i].to = rooms'[r]
                     /\ s \in emitted'[i].to
                     /\ emitted'[i].payload.instructorId = u
                     /\ emitted'[i].payload.startTime = sessions'[r].startTime
                     /\ emitted'[i].payload.startTime # Null
                     /\ (r \in DOMAIN sessions /\ sessions[r].startTime # Null)
                          => emitted'[i].payload.startTime = sessions[r].startTime
                     /\ \A j \in EventsAfter("participants-updated") : i < j]_vars

\* an instructor re-admitted at time 2 while a second connection is attached:
\* both receive broadcast-started with the startTime of time 1
C13_Witness ==
    \E i \in Events("broadcast-started") :
        /\ now = 2
        /\ emitted[i].payload.startTime = [ms |-> 1]
        /\ Cardinality(emitted[i].to) = 2

\* C14: the live-sessions query answers with exactly one entry for each
\* session that is live with an active instructor and with none for any
\* other room, each entry carrying the room's id, startTime, instructor
\* identity and participants = students.size + 1; and the query changes no
\* session, creates none, and leaves the rooms as they are.
C14_LiveSessionsQuery ==
    /\ [](response # Null =>
            /\ response.success
            /\ \A i \in 1..Len(response.sessions) :
                  response.sessions[i].id \in DOMAIN sessions
            /\ \A r \in DOMAIN sessions :
                  LET entries == {i \in 1..Len(response.sessions) :
                                     response.sessions[i].id = r}
                      live    == /\ sessions[r].isLive
                                 /\ sessions[r].instructor # Null
                                 /\ sessions[r].instructor.active
                  IN  /\ Cardinality(entries) = (IF live THEN 1 ELSE 0)
                      /\ \A i \in entries :
                            response.sessions[i] =
                              [id           |-> r,
                               startTime    |-> sessions[r].startTime,
                               participants |-> Cardinality(sessions[r].students) + 1,
                               instructorId |-> sessions[r].instructor.id])
    /\ [][response' # Null => (sessions' = sessions /\ rooms' = rooms)]_vars

\* the query answered with the entries of two live sessions, one of them
\* with a student
C14_Witness ==
    /\ response # Null
    /\ Len(response.sessions) = 2
    /\ \E i \in 1..2 : response.sessions[i].participants = 2

\* C15: an instructor join with a room id and an identity is admitted
\* exactly when the session has no active instructor or the active
\* instructor is recorded on the requesting connection; an admission makes
\* the instructor record {the requester's identity, the requester's
\* connection, active} and isLive true, whatever identity was recorded
\* before; a refusal emits the error and keeps the record.
C15_InstructorAdmission ==
    [][\A s \in Sockets, r \in RoomIds, u \in UserIds :
          JoinBroadcast(s, r, u, "instructor")
            => IF MeetsConflict(s, r)
               THEN /\ EventsAfter("error") # {}
                    /\ EventsAfter("broadcast-started") = {}
                    /\ sessions'[r].instructor = sessions[r].instructor
               ELSE /\ EventsAfter("error") = {}
                    /\ EventsAfter("broadcast-started") # {}
                    /\ sessions'[r].instructor =
                         [id |-> u, socketId |-> s, active |-> TRUE]
                    /\ sessions'[r].isLive]_vars

\* an instructor admission at time 2 into a session live since time 1, which
\* only the recorded connection obtains, under the identity u2 while a
\* student of the same identity is in the room
C15_Witness ==
    \E r \in DOMAIN sessions, i \in Events("broadcast-started") :
        /\ now = 2
        /\ sessions[r].startTime = [ms |-> 1]
        /\ sessions[r].instructor.id = "u2"
        /\ emitted[i].payload.instructorId = "u2"
        /\ \E e \in sessions[r].students : e[1] = "u2"

\* C16: in every reachable state, every open connection that a session
\* records, as the connection of its active instructor or of a student
\* entry, is attached to that room, so that it receives the room's later
\* participants-updated and broadcast-started; a rejected instructor join
\* of an admitted student does not detach it.
C16_RecordedConnectionsAttached ==
    \A r \in DOMAIN sessions :
        /\ (/\ sessions[r].instructor # Null
            /\ sessions[r].instructor.active
            /\ sessions[r].instructor.socketId \in connected)
              => sessions[r].instructor.socketId \in rooms[r]
        /\ \A e \in sessions[r].students :
              e[2].socketId \in connected => e[2].socketId \in rooms[r]

\* C17: once a room has an active instructor, every later state has it: no
\* step, the loss of that connection included, ends isLive, the active flag
\* or the recorded connection, and every instructor join to the room from
\* another connection is refused.
C17_InstructorIsAbsorbing ==
    [][\A r \in RoomIds :
          LiveInstructor(r)
            => /\ r \in DOMAIN sessions'
               /\ sessions'[r].isLive
               /\ sessions'[r].instructor # Null
               /\ sessions'[r].instructor.active
               /\ sessions'[r].instructor.socketId = sessions[r].instructor.socketId
               /\ \A s \in Sockets \ {sessions[r].instructor.socketId}, u \in UserIds :
                     JoinBroadcast(s, r, u, "instructor")
                       => /\ EventsAfter("error") # {}
                          /\ EventsAfter("broadcast-started") = {}]_vars

\* the instructor's connection is lost, the session is still live on it, and
\* the other connection has just been refused as instructor
C17_Witness ==
    \E r \in DOMAIN sessions, s \in connected :
        /\ sessions[r].isLive
        /\ sessions[r].instructor # Null
        /\ sessions[r].instructor.active
        /\ sessions[r].instructor.socketId \in closed
        /\ Len(emitted) = 1
        /\ emitted[1].event = "error"
        /\ emitted[1].to = {s}

\* C18: a join request that names room r changes no session but r's,
\* attaches or detaches the requester for no room but r, and delivers its
\* notifications only to the requester, to the connection of r's recorded
\* instructor and to the connections attached to r.
C18_JoinTouchesOneRoom ==
    [][\A s \in Sockets, r \in SharedRoomIds \cup {Empty}, u \in JoinUsers, t \in UserTypes :
          JoinBroadcast(s, r, u, t)
            => /\ \A q \in DOMAIN sessions' \ {r} :
                     q \in DOMAIN sessions /\ sessions'[q] = sessions[q]
               /\ \A q \in RoomNames \ {r} : rooms'[q] = rooms[q]
               /\ \A i \in 1..Len(emitted') :
                     emitted'[i].to \subseteq
                         {s}
                         \cup (IF r \in DOMAIN sessions' /\ sessions'[r].instructor # Null
                               THEN {sessions'[r].instructor.socketId} ELSE {})
                         \cup (IF r \in RoomNames THEN rooms'[r] ELSE {})]_vars

====
